---- MODULE Spec2Model ----
(***************************************************************************)
(* The Lag Computation Core of kcl: the LagRegister's reconciler task      *)
(* (src/src/lag_register/register.rs) together with the two registers it   *)
(* reads, the ConsumerGroupsRegister and the PartitionOffsetsRegister.     *)
(*                                                                         *)
(* Time is counted in whole seconds.  Option<T> is a sequence of length 0  *)
(* (None) or 1 (Some); Option<Member> is a member id or NoOwner.           *)
(***************************************************************************)
EXTENDS Integers, Sequences, FiniteSets, TLC

\* ------------------------------------------------------------------ bounds
MaxTime == 6
MaxInputs == 2
MaxOffset == 2

MaxFails == 2

\* ------------------------------------------------------ program constants
LAG_STALE_AFTER == 5
CHANNEL_SIZE == 1
KOMMITTED_CONSUMER_OFFSETS_CONSUMER == "__kommitted__consumer_offsets_consumer"

\* --------------------------------------------------------------- universe
Groups == {"g", KOMMITTED_CONSUMER_OFFSETS_CONSUMER}
TopicPartitions == {<<"t", 0>>, <<"t", 1>>}
Members == {"m1", "m2"}
NoOwner == "None"
Emitters == {"cluster_status", "consumer_groups"}
Snapshots == {"s1", "s2"}

VARIABLES
    now,                 \* the wall clock (Utc::now()), in seconds
    cg_reg,              \* ConsumerGroupsRegister: group -> member -> assignment
    po_reg,              \* PartitionOffsetsRegister: partition -> history of samples
    lag_by_group,        \* LagRegister.lag_by_group: group -> partition -> LagWithOwner
    pc,                  \* where the reconciler task is
    known_groups,        \* process_consumer_groups: its local known_groups
    todo,                \* process_consumer_groups: groups the for loop has not visited
    cg_reg_curr_hash,    \* the reconciler's recorded version token
    cg_reg_latest_hash,  \* the token read by the running tick
    log,                 \* what the reconciler's last step logged
    imported,            \* history: group -> members_by_topic_partition of its last import
    unread,              \* history: groups for which the running import got None
    gone,                \* history: group -> ticks since it left the listing (0, 1, 2)
    nInputs,             \* how many inputs the environment has delivered
    kod_rx,              \* the offsets-topic event channel: "open" or "closed"
    w_guard,             \* the write lock of lag_by_group: "free" or "held"
    w_at,                \* where a writer is inside its critical section
    w_pending,           \* the register as the writer will leave it
    http_pc,             \* where the handler of a /metrics request is
    metrics_vec,         \* prometheus_metrics: the metric families built so far
    http_snapshot,       \* history: the register as the request first read it
    main_pc,             \* where main is
    signalled,           \* history: the signal handler has broadcast the shutdown
    shutdown_rx,         \* emitter -> its shutdown receiver
    em_pc,               \* emitter -> where its task is
    em_ch,               \* emitter -> its output channel, oldest snapshot first
    em_out,              \* emitter -> the snapshot its running iteration fetched
    em_log,              \* emitter -> what its last step logged at warn or error
    em_fails             \* history: emitter -> its consecutive failed fetches

\* The state of the reconciler task and of the registers it reads.
reconciler_vars ==
    <<now, cg_reg, po_reg, lag_by_group, pc, known_groups, todo,
      cg_reg_curr_hash, cg_reg_latest_hash, log, imported, unread, gone,
      nInputs, kod_rx, w_guard, w_at, w_pending>>

\* The state of a /metrics request.
http_vars == <<http_pc, metrics_vec, http_snapshot>>

\* The state of main, of the shutdown channel and of the emitter tasks.
emitter_vars ==
    <<main_pc, signalled, shutdown_rx, em_pc, em_ch, em_out, em_log, em_fails>>

vars == <<reconciler_vars, http_vars, emitter_vars>>

\* ------------------------------------------------------- generic helpers
Max(a, b) == IF a >= b THEN a ELSE b

Restrict(f, S) == [x \in (DOMAIN f) \cap S |-> f[x]]

Last(s) == s[Len(s)]

\* ------------------------------------------------ ConsumerGroupsRegister
\* The listings the consumer groups emitter can deliver.  A listing maps each
\* group to its members, and each member to the partitions assigned to it.
Listings ==
    LET g == "g"
        k == KOMMITTED_CONSUMER_OFFSETS_CONSUMER
        t0 == <<"t", 0>>
        t1 == <<"t", 1>>
    IN  { [x \in {} |-> << >>],
          [x \in {g} |-> [m \in {"m1"} |-> {t0}]],
          [x \in {g} |-> [m \in {"m1", "m2"} |-> IF m = "m1" THEN {t0, t1} ELSE {t1}]],
          [x \in {g} |-> [m \in {"m1"} |-> {}]],
          [x \in {g, k} |-> IF x = g THEN [m \in {"m1"} |-> {t1}]
                                     ELSE [m \in {"m2"} |-> {t0}]] }

get_groups(reg) == DOMAIN reg

\* Some(group_with_members) as <<members>>, None as << >>.
get_group(reg, name) == IF name \in DOMAIN reg THEN <<reg[name]>> ELSE << >>

\* A content-derived token: equal tokens imply equal content.
get_hash(reg) == reg

\* ---------------------------------------------- PartitionOffsetsRegister
\* Each partition keeps at most OffsetsHistory samples [offset, at], oldest
\* first; offsets and times are non-decreasing along a history.
OffsetsHistory == 2

Append1(h, s) ==
    IF Len(h) < OffsetsHistory THEN Append(h, s) ELSE Append(Tail(h), s)

\* Ok(sample) as <<sample>>, Err(NoData) as << >>.
get_latest_tracked_offset(po, tp) ==
    IF po[tp] = << >> THEN << >> ELSE <<Last(po[tp])>>

\* max(0, latest.offset - committed), NoData without samples.
estimate_offset_lag(po, tp, committed) ==
    IF po[tp] = << >> THEN << >>
    ELSE <<Max(0, Last(po[tp]).offset - committed)>>

\* The production time of `committed`, interpolated between the two samples
\* that bracket it by offset.
estimate_offset_datetime(h, committed) ==
    LET lo == CHOOSE i \in 1..Len(h) :
                  /\ h[i].offset <= committed
                  /\ \A j \in 1..Len(h) : h[j].offset <= committed => j <= i
        hi == CHOOSE i \in 1..Len(h) :
                  /\ h[i].offset >= committed
                  /\ \A j \in 1..Len(h) : h[j].offset >= committed => j >= i
    IN  IF h[lo].offset = h[hi].offset THEN h[lo].at
        ELSE h[lo].at + ((committed - h[lo].offset) * (h[hi].at - h[lo].at))
                            \div (h[hi].offset - h[lo].offset)

\* latest.at - the estimated production time of `committed`; zero when the
\* group is at or past the latest sample; the earliest sample's time when the
\* group is before the earliest sample.  NoData without samples.
estimate_time_lag(po, tp, committed, committed_at) ==
    LET h == po[tp] IN
    IF h = << >> THEN << >>
    ELSE IF committed >= Last(h).offset THEN <<0>>
    ELSE IF committed < h[1].offset THEN <<Last(h).at - h[1].at>>
    ELSE <<Last(h).at - estimate_offset_datetime(h, committed)>>

\* Result::unwrap_or_else(|e| default)
unwrap_or(res, default) == IF res = << >> THEN default ELSE res[1]

\* ------------------------------------------------------------ LagRegister
\* The staleness test with the threshold included.
is_stale_at_threshold(lag, t) == t - lag.offset_timestamp >= LAG_STALE_AFTER

\* Lag::is_stale, with `t` the value Utc::now() returns.
is_stale(lag, t) == t - lag.offset_timestamp > LAG_STALE_AFTER

\* LagWithOwner
LagWithOwner(lag, owner) == [lag |-> lag, owner |-> owner]

\* All the orders in which an iteration can visit a set (HashMap iteration
\* order is arbitrary).
Orders(S) ==
    {f \in [1..Cardinality(S) -> S] : \A i, j \in DOMAIN f : f[i] = f[j] => i = j}

\* update_stale_lags: one iteration order for the entries of every group.
iteration_orders(reg) ==
    {f \in [DOMAIN reg -> UNION {Orders(DOMAIN reg[g]) : g \in DOMAIN reg}] :
        \A g \in DOMAIN reg : f[g] \in Orders(DOMAIN reg[g])}

\* process_consumer_groups: members_by_topic_partition, collected into a map
\* while visiting the members in `order`: the last member visited wins.
members_by_topic_partition(members, order) ==
    LET owned == UNION {members[m] : m \in DOMAIN members}
        last(tp) == CHOOSE i \in DOMAIN order :
                        /\ tp \in members[order[i]]
                        /\ \A j \in DOMAIN order : tp \in members[order[j]] => j <= i
    IN  [tp \in owned |-> order[last(tp)]]

\* Lag::default()
default_lag ==
    [offset |-> 0, offset_timestamp |-> 0, timestamp |-> 0, offset_lag |-> 0,
     time_lag |-> 0]

\* The Entry::Vacant branch storing Some(Lag::default()) for every entry.
insert_group_with_default_lag(mbtp) ==
    [tp \in DOMAIN mbtp |-> LagWithOwner(<<default_lag>>, mbtp[tp])]

\* The Entry::Vacant branch storing LagWithOwner::default() for every entry.
insert_group_without_owner(mbtp) ==
    [tp \in DOMAIN mbtp |-> LagWithOwner(<< >>, NoOwner)]

\* process_consumer_groups, the Entry::Vacant branch: a new group.
insert_group(mbtp) ==
    [tp \in DOMAIN mbtp |-> LagWithOwner(<< >>, mbtp[tp])]

\* The update branch without its retain.
update_group_without_retain(lbtp, mbtp) ==
    [tp \in DOMAIN lbtp \cup DOMAIN mbtp |->
        IF tp \notin DOMAIN mbtp THEN lbtp[tp]
        ELSE IF tp \in DOMAIN lbtp THEN [lbtp[tp] EXCEPT !.owner = mbtp[tp]]
        ELSE LagWithOwner(<< >>, mbtp[tp])]

\* The update branch storing a new LagWithOwner for every assigned partition.
update_group_with_new_entries(lbtp, mbtp) ==
    [tp \in DOMAIN mbtp |-> LagWithOwner(<< >>, mbtp[tp])]

\* process_consumer_groups, the update branch: retain, then set the owners.
update_group(lbtp, mbtp) ==
    [tp \in DOMAIN mbtp |->
        IF tp \in DOMAIN lbtp THEN [lbtp[tp] EXCEPT !.owner = mbtp[tp]]
        ELSE LagWithOwner(<< >>, mbtp[tp])]

\* process_consumer_groups, one iteration of the loop over known_groups, with
\* `found` what get_group returned.
import_group(reg, name, found, order) ==
    IF found = << >> THEN reg
    ELSE LET mbtp == members_by_topic_partition(found[1], order) IN
         [g \in DOMAIN reg \cup {name} |->
            IF g # name THEN reg[g]
            ELSE IF name \notin DOMAIN reg THEN insert_group(mbtp)
            ELSE update_group(reg[name], mbtp)]

\* process_consumer_groups, the final retain.
retain_known(reg, known) == Restrict(reg, known)

\* The Lag built with `..Default::default()` in place of the timestamp.
new_lag_default_timestamp(oc, po) ==
    LET tp == <<oc.topic, oc.partition>> IN
    [offset           |-> oc.offset,
     offset_timestamp |-> oc.commit_timestamp,
     timestamp        |-> 0,
     offset_lag       |-> unwrap_or(estimate_offset_lag(po, tp, oc.offset), 0),
     time_lag         |-> unwrap_or(estimate_time_lag(po, tp, oc.offset,
                                                      oc.commit_timestamp), 0)]

\* The Lag built with the offset lag subtracted in place, without the
\* estimator's saturation.
new_lag_unsaturated(oc, po) ==
    LET tp == <<oc.topic, oc.partition>> IN
    [offset           |-> oc.offset,
     offset_timestamp |-> oc.commit_timestamp,
     timestamp        |-> oc.commit_timestamp,
     offset_lag       |-> IF po[tp] = << >> THEN 0
                          ELSE Last(po[tp]).offset - oc.offset,
     time_lag         |-> unwrap_or(estimate_time_lag(po, tp, oc.offset,
                                                      oc.commit_timestamp), 0)]

\* The Lag built without estimating the time lag.
new_lag_zero_time_lag(oc, po) ==
    LET tp == <<oc.topic, oc.partition>> IN
    [offset           |-> oc.offset,
     offset_timestamp |-> oc.commit_timestamp,
     timestamp        |-> oc.commit_timestamp,
     offset_lag       |-> unwrap_or(estimate_offset_lag(po, tp, oc.offset), 0),
     time_lag         |-> 0]

\* The Lag built with the default offset_timestamp.
new_lag_default_offset_timestamp(oc, po) ==
    LET tp == <<oc.topic, oc.partition>> IN
    [offset           |-> oc.offset,
     offset_timestamp |-> 0,
     timestamp        |-> oc.commit_timestamp,
     offset_lag       |-> unwrap_or(estimate_offset_lag(po, tp, oc.offset), 0),
     time_lag         |-> unwrap_or(estimate_time_lag(po, tp, oc.offset,
                                                      oc.commit_timestamp), 0)]

\* process_offset_commit: the Lag it builds (offsets and partitions are not
\* negative, so the casts to u64 and u32 keep them).
new_lag(oc, po) ==
    LET tp == <<oc.topic, oc.partition>> IN
    [offset           |-> oc.offset,
     offset_timestamp |-> oc.commit_timestamp,
     timestamp        |-> oc.commit_timestamp,
     offset_lag       |-> unwrap_or(estimate_offset_lag(po, tp, oc.offset), 0),
     time_lag         |-> unwrap_or(estimate_time_lag(po, tp, oc.offset,
                                                      oc.commit_timestamp), 0)]

\* The upsert storing a whole new LagWithOwner, without an owner.
upsert_lag_without_owner(lbtp, tp, l) ==
    [x \in DOMAIN lbtp \cup {tp} |->
        IF x # tp THEN lbtp[x] ELSE LagWithOwner(<<l>>, NoOwner)]

\* process_offset_commit: the upsert of the entry of the partition.
upsert_lag(lbtp, tp, l) ==
    [x \in DOMAIN lbtp \cup {tp} |->
        IF x # tp THEN lbtp[x]
        ELSE IF tp \in DOMAIN lbtp THEN [lbtp[tp] EXCEPT !.lag = <<l>>]
        ELSE LagWithOwner(<<l>>, NoOwner)]

\* The handler creating the group of a commit that the register lacks.
process_offset_commit_creating_group(reg, oc, po) ==
    [g \in DOMAIN reg \cup {oc.group} |->
        upsert_lag(IF g \in DOMAIN reg THEN reg[g] ELSE << >>,
                   <<oc.topic, oc.partition>>, new_lag(oc, po))]

process_offset_commit(reg, oc, po) ==
    IF oc.group \in DOMAIN reg
    THEN [reg EXCEPT ![oc.group] =
            upsert_lag(reg[oc.group], <<oc.topic, oc.partition>>, new_lag(oc, po))]
    ELSE reg

\* The guard of the warning with its comparison turned around.
unknown_group_log_inverted(reg, kind, group) ==
    IF group \in DOMAIN reg THEN << >>
    ELSE IF group = KOMMITTED_CONSUMER_OFFSETS_CONSUMER THEN <<"warn", kind, group>>
    ELSE << >>

\* What an event of type `kind` about `group` logs at warn level: nothing, or
\* "Received {kind} about unknown Group '{group}': ignoring".
unknown_group_log(reg, kind, group) ==
    IF group \in DOMAIN reg THEN << >>
    ELSE IF group # KOMMITTED_CONSUMER_OFFSETS_CONSUMER THEN <<"warn", kind, group>>
    ELSE << >>

\* The map built from the members' assigned partitions alone.
new_tp_to_owner_assigned_only(members) ==
    LET tps(m) == m.assigned_topic_partitions
        all == UNION {tps(members[i]) : i \in DOMAIN members}
        last(tp) == CHOOSE i \in DOMAIN members :
                        /\ tp \in tps(members[i])
                        /\ \A j \in DOMAIN members : tp \in tps(members[j]) => j <= i
    IN  [tp \in all |-> members[last(tp)].id]

\* process_group_metadata: new_tp_to_owner, collected into a map while going
\* through the members in the order of the event: the last member wins.
new_tp_to_owner(members) ==
    LET tps(m) == m.assigned_topic_partitions \cup m.owned_topic_partitions
        all == UNION {tps(members[i]) : i \in DOMAIN members}
        last(tp) == CHOOSE i \in DOMAIN members :
                        /\ tp \in tps(members[i])
                        /\ \A j \in DOMAIN members : tp \in tps(members[j]) => j <= i
    IN  [tp \in all |-> members[last(tp)].id]

\* process_group_metadata: retain, then set the owner of what is left.
retain_owned(lbtp, tp_to_owner) ==
    [tp \in (DOMAIN lbtp) \cap (DOMAIN tp_to_owner) |->
        [lbtp[tp] EXCEPT !.owner = tp_to_owner[tp]]]

\* The handler without its early return on an empty member list.
process_group_metadata_without_early_return(reg, gm) ==
    IF gm.group \in DOMAIN reg
    THEN [reg EXCEPT ![gm.group] =
            retain_owned(reg[gm.group], new_tp_to_owner(gm.members))]
    ELSE reg

process_group_metadata(reg, gm) ==
    IF gm.members = << >> THEN reg
    ELSE IF gm.group \in DOMAIN reg
    THEN [reg EXCEPT ![gm.group] =
            retain_owned(reg[gm.group], new_tp_to_owner(gm.members))]
    ELSE reg

\* What process_group_metadata logs: "Ignoring {gm}: no Members" at debug
\* level, or what an event about an unknown group logs.
group_metadata_log(reg, gm) ==
    IF gm.members = << >> THEN <<"debug", "GroupMetadata", gm.group>>
    ELSE unknown_group_log(reg, "GroupMetadata", gm.group)

\* The refresh moving the anchor of staleness along with the timestamp.
refreshed_lag_with_new_anchor(lag, tp, po, t) ==
    LET latest_offset == get_latest_tracked_offset(po, tp)[1] IN
    [lag EXCEPT
        !.offset_lag = unwrap_or(estimate_offset_lag(po, tp, lag.offset), 0),
        !.time_lag   = unwrap_or(estimate_time_lag(po, tp, lag.offset,
                                                   latest_offset.at), 0),
        !.timestamp  = t,
        !.offset_timestamp = t]

\* update_stale_lags: the refreshed Lag of a stale entry.
refreshed_lag(lag, tp, po, t) ==
    LET latest_offset == get_latest_tracked_offset(po, tp)[1] IN
    [lag EXCEPT
        !.offset_lag = unwrap_or(estimate_offset_lag(po, tp, lag.offset), 0),
        !.time_lag   = unwrap_or(estimate_time_lag(po, tp, lag.offset,
                                                   latest_offset.at), 0),
        !.timestamp  = t]

\* update_stale_lags: whether the inner loop stops at this entry.
breaks_at(lwo, tp, po, t) ==
    /\ lwo.lag # << >>
    /\ \/ ~is_stale(lwo.lag[1], t)
       \/ get_latest_tracked_offset(po, tp) = << >>

\* update_stale_lags: the inner loop over one group's entries, visited in
\* `order`: every entry with a lag is refreshed until the loop breaks.
refresh_group(lbtp, order, po, t) ==
    LET stops == {i \in DOMAIN order : breaks_at(lbtp[order[i]], order[i], po, t)}
        visited == {order[i] : i \in {j \in DOMAIN order : \A k \in stops : j < k}}
    IN  [tp \in DOMAIN lbtp |->
            IF tp \in visited /\ lbtp[tp].lag # << >>
            THEN [lbtp[tp] EXCEPT !.lag = <<refreshed_lag(lbtp[tp].lag[1], tp, po, t)>>]
            ELSE lbtp[tp]]

update_stale_lags(reg, orders, po, t) ==
    [g \in DOMAIN reg |-> refresh_group(reg[g], orders[g], po, t)]

\* update_stale_lags logs an error when it reaches a stale entry without data.
stale_lags_log(reg, orders, po, t) ==
    IF \E g \in DOMAIN reg : \E i \in DOMAIN orders[g] :
          /\ \A k \in DOMAIN orders[g] :
                k < i => ~breaks_at(reg[g][orders[g][k]], orders[g][k], po, t)
          /\ reg[g][orders[g][i]].lag # << >>
          /\ is_stale(reg[g][orders[g][i]].lag[1], t)
          /\ get_latest_tracked_offset(po, orders[g][i]) = << >>
    THEN <<"error", "update_stale_lags">> ELSE << >>

\* The branches of the reconciler's select! that are not disabled: the one of
\* kod_rx.recv() while the channel is open, and the one of
\* reconcile_timeout.tick(), whose pattern matches every tick.
enabled_branches(rx) == (IF rx = "open" THEN {"recv"} ELSE {}) \cup {"tick"}

\* Awaitable::is_ready for LagRegister
is_ready(reg) == DOMAIN reg # {}

\* ------------------------------------------------------------ MetricsReader
\* One metric family: a line per entry that has a lag, labelled with the
\* group, the partition and the owner, and valued with one field of the lag.
metric_family(reg, field) ==
    UNION { { <<g, tp, reg[g][tp].owner, reg[g][tp].lag[1][field]>> :
                tp \in {x \in DOMAIN reg[g] : reg[g][x].lag # << >>} } :
            g \in DOMAIN reg }

\* The reader taking a family without the read lock.
read_allowed_unlocked(guard) == TRUE

\* lag_by_group.read().await returns while no writer holds the lock.
read_allowed(guard) == guard = "free"

\* The body of a request before its first family.
empty_metrics_vec == [offset |-> {}, lag_offset |-> {}, lag_milliseconds |-> {}]

\* --------------------------------------------------------------- emitters
\* mpsc::Sender::send_timeout on a channel of CHANNEL_SIZE slots: the value is
\* queued when a slot is free, and the timeout elapses when none is.
send_timeout_unbounded(ch, snapshot) ==
    [ch |-> Append(ch, snapshot), res |-> "Ok"]

send_timeout(ch, snapshot) ==
    IF Len(ch) < CHANNEL_SIZE
    THEN [ch |-> Append(ch, snapshot), res |-> "Ok"]
    ELSE [ch |-> ch, res |-> "Err"]

\* The emitter leaving its loop on a failed fetch.
after_fetch_fatal(res) == IF res = "Err" THEN "done" ELSE "select"

\* The emitter's loop after the fetch: the select! on Ok, the interval tick on
\* Err.
after_fetch(res) == IF res = "Err" THEN "tick" ELSE "select"

\* What the fetch logs: the error, or the warning when the channel is full.
fetch_log(res, ch) ==
    IF res = "Err" THEN <<"error", "fetch">>
    ELSE IF CHANNEL_SIZE - Len(ch) = 0 THEN <<"warn", "saturated">>
    ELSE << >>

\* history: the consecutive failed fetches, counted up to MaxFails.
count_fails(n, res) ==
    IF res # "Err" THEN 0 ELSE IF n < MaxFails THEN n + 1 ELSE n

\* broadcast::Sender::send: every receiver that exists gets the value.
broadcast_send(rx) ==
    [e \in DOMAIN rx |-> IF rx[e] = "none" THEN "none" ELSE "signalled"]

\* ------------------------------------------------------------- the inputs
\* The OffsetCommit events the offsets topic can deliver at time t: a commit
\* made now, or an old record (the topic is read from its beginning).
OffsetCommits(t) ==
    [group : Groups, topic : {"t"}, partition : {0, 1},
     offset : 0..MaxOffset, commit_timestamp : {0, t}]

GroupMember(id, assigned, owned) ==
    [id |-> id, assigned_topic_partitions |-> assigned, owned_topic_partitions |-> owned]

GroupMetadatas ==
    LET t0 == <<"t", 0>>
        t1 == <<"t", 1>>
    IN  [group : Groups,
         members : { << >>,
                     <<GroupMember("m1", {t0}, {})>>,
                     <<GroupMember("m2", {t1}, {t0})>>,
                     <<GroupMember("m1", {t0}, {}), GroupMember("m2", {t0}, {t1})>> }]

\* ---------------------------------------------------------- history only
\* gone[g]: 0 while g is listed or no tick has started since it left the
\* listing, 1 once a tick has started with g unlisted, 2 once that tick has
\* completed with g still unlisted.
gone_after_listing(gn, old, new) ==
    [g \in Groups |-> IF g \in DOMAIN new \/ g \in DOMAIN old THEN 0 ELSE gn[g]]

gone_at_tick(gn, reg) ==
    [g \in Groups |-> IF g \notin DOMAIN reg /\ gn[g] = 0 THEN 1 ELSE gn[g]]

gone_after_tick(gn) ==
    [g \in Groups |-> IF gn[g] = 1 THEN 2 ELSE gn[g]]

\* imported[g][tp]: the members the partition was assigned to when the import
\* last read group g.
assigned_to(members) ==
    [tp \in UNION {members[m] : m \in DOMAIN members} |->
        {m \in DOMAIN members : tp \in members[m]}]

\* ------------------------------------------------------------------- Init
\* No task holds the write lock of lag_by_group.
InitLock ==
    /\ w_guard = "free"
    /\ w_at = << >>
    /\ w_pending = [g \in {} |-> << >>]

\* No /metrics request is being served.
InitHttp ==
    /\ http_pc = "idle"
    /\ metrics_vec = empty_metrics_vec
    /\ http_snapshot = [g \in {} |-> << >>]

\* main has not built the shutdown channel and has spawned no emitter.
InitMain ==
    /\ main_pc = "build_shutdown_channel"
    /\ signalled = FALSE
    /\ shutdown_rx = [e \in Emitters |-> "none"]
    /\ em_pc = [e \in Emitters |-> "unspawned"]
    /\ em_ch = [e \in Emitters |-> << >>]
    /\ em_out = [e \in Emitters |-> "none"]
    /\ em_log = [e \in Emitters |-> << >>]
    /\ em_fails = [e \in Emitters |-> 0]

\* The task of LagRegister::new starts with an empty register.  The other two
\* registers exist before it: the ConsumerGroupsRegister holds any listing, and
\* the poller has sampled partition t:0 once and t:1 not yet.
Init ==
    /\ now = 0
    /\ cg_reg \in Listings
    /\ po_reg = [tp \in TopicPartitions |->
                    IF tp = <<"t", 0>> THEN <<[offset |-> 0, at |-> 0]>> ELSE << >>]
    /\ lag_by_group = [g \in {} |-> << >>]
    /\ pc = "init_groups"
    /\ known_groups = {}
    /\ todo = {}
    /\ cg_reg_curr_hash = [x \in {} |-> << >>]
    /\ cg_reg_latest_hash = [x \in {} |-> << >>]
    /\ log = << >>
    /\ imported = [g \in {} |-> << >>]
    /\ unread = {}
    /\ gone = [g \in Groups |-> 0]
    /\ nInputs = 0
    /\ kod_rx = "open"
    /\ InitLock
    /\ InitHttp
    /\ InitMain

\* -------------------------------------------------------- the environment
\* The clock is looked at when it has moved by the staleness threshold or by
\* one second more.
TimeSteps == {LAG_STALE_AFTER, LAG_STALE_AFTER + 1}

\* Time passes.  The reconciler reads the clock and the PartitionOffsetsRegister
\* only in the handlers it runs from its select! and in update_stale_lags, and
\* between the tick and update_stale_lags it reads neither: time that passes or
\* a sample that arrives elsewhere has the effect it has at the select!, where
\* Advance and Poll are taken.
Advance ==
    /\ pc = "select"
    /\ \E d \in TimeSteps :
          /\ now + d <= MaxTime
          /\ now' = now + d
    /\ UNCHANGED <<cg_reg, po_reg, lag_by_group, pc, known_groups, todo,
                   cg_reg_curr_hash, cg_reg_latest_hash, log, imported, unread,
                   gone, nInputs>>
    /\ UNCHANGED <<kod_rx, w_guard, w_at, w_pending, http_vars, emitter_vars>>

\* The ConsumerGroupsRegister takes a new listing: the map is replaced.
ReplaceListing ==
    /\ nInputs < MaxInputs
    /\ \E l \in Listings \ {cg_reg} :
          /\ cg_reg' = l
          /\ gone' = gone_after_listing(gone, cg_reg, l)
    /\ nInputs' = nInputs + 1
    /\ UNCHANGED <<now, po_reg, lag_by_group, pc, known_groups, todo,
                   cg_reg_curr_hash, cg_reg_latest_hash, log, imported, unread>>
    /\ UNCHANGED <<kod_rx, w_guard, w_at, w_pending, http_vars, emitter_vars>>

\* The watermark poller appends a sample to the history of a partition.
Poll ==
    /\ pc = "select"
    /\ nInputs < MaxInputs
    /\ \E tp \in TopicPartitions : \E hw \in 0..MaxOffset :
          /\ po_reg[tp] # << >> => hw >= Last(po_reg[tp]).offset
          /\ po_reg' = [po_reg EXCEPT
                           ![tp] = Append1(@, [offset |-> hw, at |-> now])]
    /\ nInputs' = nInputs + 1
    /\ UNCHANGED <<now, cg_reg, lag_by_group, pc, known_groups, todo,
                   cg_reg_curr_hash, cg_reg_latest_hash, log, imported, unread,
                   gone>>
    /\ UNCHANGED <<kod_rx, w_guard, w_at, w_pending, http_vars, emitter_vars>>

\* --------------------------------------------------- the reconciler task
\* process_consumer_groups: known_groups = cg_reg.get_groups().await
GetGroups ==
    /\ pc \in {"init_groups", "tick_groups"}
    /\ known_groups' = get_groups(cg_reg)
    /\ todo' = get_groups(cg_reg)
    /\ unread' = {}
    /\ pc' = IF pc = "init_groups" THEN "init_loop" ELSE "tick_loop"
    /\ log' = << >>
    /\ UNCHANGED <<now, cg_reg, po_reg, lag_by_group, cg_reg_curr_hash,
                   cg_reg_latest_hash, imported, gone, nInputs>>
    /\ UNCHANGED <<kod_rx, w_guard, w_at, w_pending, http_vars, emitter_vars>>

\* process_consumer_groups: one iteration of the loop over known_groups.
ImportGroup ==
    /\ pc \in {"init_loop", "tick_loop"}
    /\ \E name \in todo :
          LET found == get_group(cg_reg, name) IN
          /\ todo' = todo \ {name}
          /\ IF found = << >>
             THEN /\ lag_by_group' = import_group(lag_by_group, name, found, << >>)
                  /\ unread' = unread \cup {name}
                  /\ imported' = imported
             ELSE /\ \E order \in Orders(DOMAIN found[1]) :
                        lag_by_group' = import_group(lag_by_group, name, found, order)
                  /\ unread' = unread
                  /\ imported' = [g \in DOMAIN imported \cup {name} |->
                                     IF g = name THEN assigned_to(found[1])
                                     ELSE imported[g]]
    /\ log' = << >>
    /\ UNCHANGED <<now, cg_reg, po_reg, pc, known_groups, cg_reg_curr_hash,
                   cg_reg_latest_hash, gone, nInputs>>
    /\ UNCHANGED <<kod_rx, w_guard, w_at, w_pending, http_vars, emitter_vars>>

\* process_consumer_groups: the final retain; the tick then records the token
\* it read before the import.
FinishImport ==
    /\ pc \in {"init_loop", "tick_loop"}
    /\ todo = {}
    /\ lag_by_group' = retain_known(lag_by_group, known_groups)
    /\ imported' = Restrict(imported, known_groups)
    /\ IF pc = "init_loop"
       THEN /\ pc' = "init_hash"
            /\ cg_reg_curr_hash' = cg_reg_curr_hash
       ELSE /\ pc' = "tick_refresh"
            /\ cg_reg_curr_hash' = cg_reg_latest_hash
    /\ known_groups' = {}
    /\ unread' = {}
    /\ log' = << >>
    /\ UNCHANGED <<now, cg_reg, po_reg, todo, cg_reg_latest_hash, gone, nInputs>>
    /\ UNCHANGED <<kod_rx, w_guard, w_at, w_pending, http_vars, emitter_vars>>

\* cg_reg_curr_hash = cg_reg.get_hash().await, after the first import.
InitHash ==
    /\ pc = "init_hash"
    /\ cg_reg_curr_hash' = get_hash(cg_reg)
    /\ pc' = "select"
    /\ log' = << >>
    /\ UNCHANGED <<now, cg_reg, po_reg, lag_by_group, known_groups, todo,
                   cg_reg_latest_hash, imported, unread, gone, nInputs>>
    /\ UNCHANGED <<kod_rx, w_guard, w_at, w_pending, http_vars, emitter_vars>>

\* The select! takes an OffsetCommit from kod_rx.
RecvOffsetCommit(oc) ==
    /\ pc = "select"
    /\ kod_rx = "open"
    /\ nInputs < MaxInputs
    /\ lag_by_group' = process_offset_commit(lag_by_group, oc, po_reg)
    /\ log' = unknown_group_log(lag_by_group, "OffsetCommit", oc.group)
    /\ nInputs' = nInputs + 1
    /\ UNCHANGED <<now, cg_reg, po_reg, pc, known_groups, todo, cg_reg_curr_hash,
                   cg_reg_latest_hash, imported, unread, gone>>
    /\ UNCHANGED <<kod_rx, w_guard, w_at, w_pending, http_vars, emitter_vars>>

\* The select! takes a GroupMetadata from kod_rx.
RecvGroupMetadata(gm) ==
    /\ pc = "select"
    /\ kod_rx = "open"
    /\ nInputs < MaxInputs
    /\ lag_by_group' = process_group_metadata(lag_by_group, gm)
    /\ log' = group_metadata_log(lag_by_group, gm)
    /\ nInputs' = nInputs + 1
    /\ UNCHANGED <<now, cg_reg, po_reg, pc, known_groups, todo, cg_reg_curr_hash,
                   cg_reg_latest_hash, imported, unread, gone>>
    /\ UNCHANGED <<kod_rx, w_guard, w_at, w_pending, http_vars, emitter_vars>>

\* The select! finds kod_rx closed: recv() returns None, the pattern Some(kod)
\* does not match and the branch is disabled for this select!, which exits
\* the loop through `else` when no branch is left and waits for the others
\* when some are.
RecvClosed ==
    /\ pc = "select"
    /\ kod_rx = "closed"
    /\ pc' = IF enabled_branches(kod_rx) = {} THEN "exited" ELSE "select_tick"
    /\ log' = << >>
    /\ UNCHANGED <<now, cg_reg, po_reg, lag_by_group, known_groups, todo,
                   cg_reg_curr_hash, cg_reg_latest_hash, imported, unread, gone,
                   nInputs, kod_rx>>
    /\ UNCHANGED <<w_guard, w_at, w_pending, http_vars, emitter_vars>>

\* The select! takes the reconcile tick: it reads the token and compares.
Tick ==
    /\ pc \in {"select", "select_tick"}
    /\ cg_reg_latest_hash' = get_hash(cg_reg)
    /\ pc' = IF cg_reg_curr_hash # get_hash(cg_reg) THEN "tick_groups"
             ELSE "tick_refresh"
    /\ gone' = gone_at_tick(gone, cg_reg)
    /\ log' = << >>
    /\ UNCHANGED <<now, cg_reg, po_reg, lag_by_group, known_groups, todo,
                   cg_reg_curr_hash, imported, unread, nInputs>>
    /\ UNCHANGED <<kod_rx, w_guard, w_at, w_pending, http_vars, emitter_vars>>

\* The tick ends with update_stale_lags, under one write lock.
UpdateStaleLags ==
    /\ pc = "tick_refresh"
    /\ \E orders \in iteration_orders(lag_by_group) :
          /\ lag_by_group' = update_stale_lags(lag_by_group, orders, po_reg, now)
          /\ log' = stale_lags_log(lag_by_group, orders, po_reg, now)
    /\ pc' = "select"
    /\ gone' = gone_after_tick(gone)
    /\ UNCHANGED <<now, cg_reg, po_reg, known_groups, todo, cg_reg_curr_hash,
                   cg_reg_latest_hash, imported, unread, nInputs>>
    /\ UNCHANGED <<kod_rx, w_guard, w_at, w_pending, http_vars, emitter_vars>>

Next ==
    \/ Advance
    \/ ReplaceListing
    \/ Poll
    \/ GetGroups
    \/ ImportGroup
    \/ FinishImport
    \/ InitHash
    \/ \E oc \in OffsetCommits(now) : RecvOffsetCommit(oc)
    \/ \E gm \in GroupMetadatas : RecvGroupMetadata(gm)
    \/ Tick
    \/ UpdateStaleLags

Spec == Init /\ [][Next]_vars

\* ------------------------------------------- the scenarios of OffsetCommit
\* A second specification for the values the OffsetCommit handler stores: the
\* reconciler is at its select!, group g is imported, the histories hold the
\* samples (100, 10:00:00) and (200, 10:00:10) of the scenarios or a part or
\* an extension of them, and the commits are those of the scenarios (times in
\* seconds after 10:00:00).
ScenarioSample(offset, at) == [offset |-> offset, at |-> at]

ScenarioHistories ==
    {h \in { << >>,
             <<ScenarioSample(100, 0)>>,
             <<ScenarioSample(100, 0), ScenarioSample(200, 10)>>,
             <<ScenarioSample(100, 0), ScenarioSample(100, 5), ScenarioSample(200, 10)>>,
             <<ScenarioSample(100, 0), ScenarioSample(150, 4), ScenarioSample(200, 10)>> } :
        Len(h) <= OffsetsHistory}

ScenarioCommits ==
    [group : {"g"}, topic : {"t"}, partition : {0, 1},
     offset : {50, 100, 150, 200, 250}, commit_timestamp : {4}]

ScenarioListing == [x \in {"g"} |-> [m \in {"m1"} |-> {<<"t", 0>>, <<"t", 1>>}]]

InitScenario ==
    /\ now = 10
    /\ cg_reg = ScenarioListing
    /\ po_reg \in [TopicPartitions -> ScenarioHistories]
    /\ lag_by_group =
          import_group([g \in {} |-> << >>], "g", get_group(ScenarioListing, "g"),
                       <<"m1">>)
    /\ pc = "select"
    /\ known_groups = {}
    /\ todo = {}
    /\ cg_reg_curr_hash = get_hash(ScenarioListing)
    /\ cg_reg_latest_hash = [x \in {} |-> << >>]
    /\ log = << >>
    /\ imported = [g \in {"g"} |-> assigned_to(ScenarioListing["g"])]
    /\ unread = {}
    /\ gone = [g \in Groups |-> 0]
    /\ nInputs = 0
    /\ kod_rx = "open"
    /\ InitLock
    /\ InitHttp
    /\ InitMain

NextScenario == \E oc \in ScenarioCommits : RecvOffsetCommit(oc)

SpecScenario == InitScenario /\ [][NextScenario]_vars

\* ------------------------------------------- the end of the event channel
\* The offsets-topic emitter terminates on shutdown and drops its sender.
CloseKod ==
    /\ kod_rx = "open"
    /\ kod_rx' = "closed"
    /\ UNCHANGED <<now, cg_reg, po_reg, lag_by_group, pc, known_groups, todo,
                   cg_reg_curr_hash, cg_reg_latest_hash, log, imported, unread,
                   gone, nInputs>>
    /\ UNCHANGED <<w_guard, w_at, w_pending, http_vars, emitter_vars>>

\* The steps the reconciler task takes without an event.
ReconcilerStep ==
    \/ GetGroups
    \/ ImportGroup
    \/ FinishImport
    \/ InitHash
    \/ RecvClosed
    \/ Tick
    \/ UpdateStaleLags

\* A fifth specification: the reconciler from its start, with events arriving
\* until the event channel is closed.  The task is scheduled and its awaits
\* complete: the locks are released and the interval fires.
NextClosing ==
    \/ GetGroups
    \/ ImportGroup
    \/ FinishImport
    \/ InitHash
    \/ \E oc \in OffsetCommits(now) : RecvOffsetCommit(oc)
    \/ CloseKod
    \/ RecvClosed
    \/ Tick
    \/ UpdateStaleLags

SpecClosing == Init /\ [][NextClosing]_vars /\ WF_vars(ReconcilerStep)

\* ------------------------------------------------------ a /metrics request
\* prometheus_metrics: the family consumer_partition_offset, built under the
\* first read lock.
AppendOffset ==
    /\ http_pc = "idle"
    /\ read_allowed(w_guard)
    /\ metrics_vec' = [empty_metrics_vec EXCEPT
                          !.offset = metric_family(lag_by_group, "offset")]
    /\ http_snapshot' = lag_by_group
    /\ http_pc' = "lag_offset"
    /\ UNCHANGED <<reconciler_vars, emitter_vars>>

\* prometheus_metrics: the family consumer_partition_lag_offset, built under
\* the second read lock.
AppendLagOffset ==
    /\ http_pc = "lag_offset"
    /\ read_allowed(w_guard)
    /\ metrics_vec' = [metrics_vec EXCEPT
                          !.lag_offset = metric_family(lag_by_group, "offset_lag")]
    /\ http_pc' = "lag_milliseconds"
    /\ UNCHANGED <<reconciler_vars, emitter_vars, http_snapshot>>

\* prometheus_metrics: the family consumer_partition_lag_milliseconds, built
\* under the third read lock.
AppendLagMilliseconds ==
    /\ http_pc = "lag_milliseconds"
    /\ read_allowed(w_guard)
    /\ metrics_vec' = [metrics_vec EXCEPT
                          !.lag_milliseconds = metric_family(lag_by_group, "time_lag")]
    /\ http_pc' = "done"
    /\ UNCHANGED <<reconciler_vars, emitter_vars, http_snapshot>>

\* A third specification: one /metrics request is served while the reconciler,
\* at its select! with group g imported, takes events from kod_rx.
InitMetrics ==
    /\ now = 10
    /\ cg_reg = ScenarioListing
    /\ po_reg = [tp \in TopicPartitions |->
                    <<ScenarioSample(0, 0), ScenarioSample(MaxOffset, 10)>>]
    /\ lag_by_group =
          import_group([g \in {} |-> << >>], "g", get_group(ScenarioListing, "g"),
                       <<"m1">>)
    /\ pc = "select"
    /\ known_groups = {}
    /\ todo = {}
    /\ cg_reg_curr_hash = get_hash(ScenarioListing)
    /\ cg_reg_latest_hash = [x \in {} |-> << >>]
    /\ log = << >>
    /\ imported = [g \in {"g"} |-> assigned_to(ScenarioListing["g"])]
    /\ unread = {}
    /\ gone = [g \in Groups |-> 0]
    /\ nInputs = 0
    /\ kod_rx = "open"
    /\ InitLock
    /\ InitHttp
    /\ InitMain

NextMetrics ==
    \/ \E oc \in OffsetCommits(now) : RecvOffsetCommit(oc)
    \/ AppendOffset
    \/ AppendLagOffset
    \/ AppendLagMilliseconds

SpecMetrics == InitMetrics /\ [][NextMetrics]_vars

\* ------------------------------------------- the write lock of lag_by_group
\* A writer's critical section taken apart: the reconciler holds w_guard from
\* its write().await to the end of the scope of the guard, and another thread
\* of the runtime can run at any point in between.

\* process_consumer_groups, the update branch after its retain and before its
\* loop over the owners.
retain_assigned(reg, name, mbtp) ==
    [reg EXCEPT ![name] = Restrict(@, DOMAIN mbtp)]

\* update_stale_lags: the entries whose refresh changes them and that the
\* loops reach before any other such entry of their group.
first_written(reg, target, orders) ==
    {<<g, orders[g][i]>> : <<g, i>> \in
        {e \in UNION {{<<g, i>> : i \in DOMAIN orders[g]} : g \in DOMAIN reg} :
            /\ target[e[1]][orders[e[1]][e[2]]] # reg[e[1]][orders[e[1]][e[2]]]
            /\ \A j \in 1..(e[2] - 1) :
                  target[e[1]][orders[e[1]][j]] = reg[e[1]][orders[e[1]][j]]}}

\* update_stale_lags after curr_lag.offset_lag of one entry is assigned and
\* before its curr_lag.time_lag is.
offset_lag_written(reg, target, g, tp) ==
    [reg EXCEPT ![g][tp].lag =
        <<[reg[g][tp].lag[1] EXCEPT
              !.offset_lag = target[g][tp].lag[1].offset_lag]>>]

\* process_consumer_groups: an iteration that writes the register once, an
\* insert or no write at all.
ImportWhole ==
    /\ w_at = << >>
    /\ ImportGroup
    /\ \E name \in todo \ todo' :
          name \notin DOMAIN lag_by_group \/ get_group(cg_reg, name) = << >>

\* process_consumer_groups, the update branch: w_guard is taken and the
\* entries of the partitions no member is assigned are removed.
ImportRetain ==
    /\ pc \in {"init_loop", "tick_loop"}
    /\ w_at = << >>
    /\ w_guard = "free"
    /\ \E name \in todo \cap DOMAIN lag_by_group :
          LET found == get_group(cg_reg, name) IN
          /\ found # << >>
          /\ \E order \in Orders(DOMAIN found[1]) :
                /\ lag_by_group' =
                      retain_assigned(lag_by_group, name,
                                      members_by_topic_partition(found[1], order))
                /\ w_pending' = import_group(lag_by_group, name, found, order)
          /\ imported' = [g \in DOMAIN imported \cup {name} |->
                             IF g = name THEN assigned_to(found[1])
                             ELSE imported[g]]
          /\ w_at' = <<"import", name>>
    /\ w_guard' = "held"
    /\ log' = << >>
    /\ UNCHANGED <<now, cg_reg, po_reg, pc, known_groups, todo, cg_reg_curr_hash,
                   cg_reg_latest_hash, unread, gone, nInputs, kod_rx>>
    /\ UNCHANGED <<http_vars, emitter_vars>>

\* process_consumer_groups, the update branch: the owners are set, the entries
\* of the newly assigned partitions are created and w_guard is dropped.
ImportSetOwners ==
    /\ w_at # << >>
    /\ w_at[1] = "import"
    /\ lag_by_group' = w_pending
    /\ todo' = todo \ {w_at[2]}
    /\ w_at' = << >>
    /\ w_guard' = "free"
    /\ w_pending' = [g \in {} |-> << >>]
    /\ UNCHANGED <<now, cg_reg, po_reg, pc, known_groups, cg_reg_curr_hash,
                   cg_reg_latest_hash, log, imported, unread, gone, nInputs,
                   kod_rx>>
    /\ UNCHANGED <<http_vars, emitter_vars>>

\* update_stale_lags when no entry changes.
RefreshWhole ==
    /\ w_at = << >>
    /\ UpdateStaleLags
    /\ lag_by_group' = lag_by_group

\* update_stale_lags: the write lock is taken and the loops run up to the
\* await after the first assignment to curr_lag.offset_lag.
RefreshOffsetLag ==
    /\ pc = "tick_refresh"
    /\ w_at = << >>
    /\ w_guard = "free"
    /\ \E orders \in iteration_orders(lag_by_group) :
          LET target == update_stale_lags(lag_by_group, orders, po_reg, now) IN
          /\ \E e \in first_written(lag_by_group, target, orders) :
                lag_by_group' = offset_lag_written(lag_by_group, target, e[1], e[2])
          /\ w_pending' = target
          /\ log' = stale_lags_log(lag_by_group, orders, po_reg, now)
    /\ w_at' = <<"refresh">>
    /\ w_guard' = "held"
    /\ UNCHANGED <<now, cg_reg, po_reg, pc, known_groups, todo, cg_reg_curr_hash,
                   cg_reg_latest_hash, imported, unread, gone, nInputs, kod_rx>>
    /\ UNCHANGED <<http_vars, emitter_vars>>

\* update_stale_lags: the rest of the loops, and the guard is dropped.
RefreshRest ==
    /\ w_at = <<"refresh">>
    /\ lag_by_group' = w_pending
    /\ pc' = "select"
    /\ gone' = gone_after_tick(gone)
    /\ w_at' = << >>
    /\ w_guard' = "free"
    /\ w_pending' = [g \in {} |-> << >>]
    /\ UNCHANGED <<now, cg_reg, po_reg, known_groups, todo, cg_reg_curr_hash,
                   cg_reg_latest_hash, log, imported, unread, nInputs, kod_rx>>
    /\ UNCHANGED <<http_vars, emitter_vars>>

\* A specification of the readers and the writers of lag_by_group: the
\* reconciler is at its select! with group g imported from the listing, its
\* import and its refresh are taken apart as above, the commits are those of
\* group g, and a /metrics request builds its first family.
InitLocks ==
    /\ now = 0
    /\ cg_reg \in {l \in Listings : DOMAIN l = {"g"} /\ DOMAIN l["g"] = Members}
    /\ po_reg = [tp \in TopicPartitions |->
                    IF tp = <<"t", 0>> THEN <<[offset |-> 0, at |-> 0]>> ELSE << >>]
    /\ \E order \in Orders(DOMAIN cg_reg["g"]) :
          lag_by_group =
             import_group([g \in {} |-> << >>], "g", get_group(cg_reg, "g"), order)
    /\ pc = "select"
    /\ known_groups = {}
    /\ todo = {}
    /\ cg_reg_curr_hash = get_hash(cg_reg)
    /\ cg_reg_latest_hash = [x \in {} |-> << >>]
    /\ log = << >>
    /\ imported = [g \in {"g"} |-> assigned_to(cg_reg["g"])]
    /\ unread = {}
    /\ gone = [g \in Groups |-> 0]
    /\ nInputs = 0
    /\ kod_rx = "open"
    /\ InitLock
    /\ InitHttp
    /\ InitMain

NextLocks ==
    \/ Advance
    \/ ReplaceListing
    \/ Poll
    \/ GetGroups
    \/ ImportWhole
    \/ ImportRetain
    \/ ImportSetOwners
    \/ FinishImport
    \/ \E oc \in {c \in OffsetCommits(now) : c.group = "g"} : RecvOffsetCommit(oc)
    \/ Tick
    \/ RefreshWhole
    \/ RefreshOffsetLag
    \/ RefreshRest
    \/ AppendOffset

SpecLocks == InitLocks /\ [][NextLocks]_vars

\* ------------------------------------------------- main and the emitters
\* build_shutdown_channel: the broadcast channel exists and the signal handler
\* is registered.
BuildShutdownChannel ==
    /\ main_pc = "build_shutdown_channel"
    /\ main_pc' = "cluster_status"
    /\ UNCHANGED <<reconciler_vars, http_vars, signalled, shutdown_rx, em_pc,
                   em_ch, em_out, em_log, em_fails>>

\* main: the emitter that main spawns at this point, and what main does next.
next_main_pc(e) == IF e = "cluster_status" THEN "consumer_groups" ELSE "join"

\* main: shutdown_rx.resubscribe() and the spawn of an emitter with it.  The
\* new receiver sees the values sent after its creation.
SpawnEmitter(e) ==
    /\ main_pc = e
    /\ shutdown_rx' = [shutdown_rx EXCEPT ![e] = "empty"]
    /\ em_pc' = [em_pc EXCEPT ![e] = "fetch"]
    /\ main_pc' = next_main_pc(e)
    /\ UNCHANGED <<reconciler_vars, http_vars, signalled, em_ch, em_out, em_log,
                   em_fails>>

\* The signal handler runs: sender.send(()).
CtrlC ==
    /\ main_pc # "build_shutdown_channel"
    /\ shutdown_rx' = broadcast_send(shutdown_rx)
    /\ signalled' = TRUE
    /\ UNCHANGED <<reconciler_vars, http_vars, main_pc, em_pc, em_ch, em_out,
                   em_log, em_fails>>

\* The emitter fetches: Ok with a snapshot, or Err.
Fetch(e) ==
    /\ em_pc[e] = "fetch"
    /\ \E res \in Snapshots \cup {"Err"} :
          /\ em_out' = [em_out EXCEPT ![e] = IF res = "Err" THEN "none" ELSE res]
          /\ em_log' = [em_log EXCEPT ![e] = fetch_log(res, em_ch[e])]
          /\ em_pc' = [em_pc EXCEPT ![e] = after_fetch(res)]
          /\ em_fails' = [em_fails EXCEPT ![e] = count_fails(@, res)]
    /\ UNCHANGED <<reconciler_vars, http_vars, main_pc, signalled, shutdown_rx,
                   em_ch>>

\* The select! completes with the branch of sx.send_timeout.
Send(e) ==
    /\ em_pc[e] = "select"
    /\ LET sent == send_timeout(em_ch[e], em_out[e]) IN
          /\ em_ch' = [em_ch EXCEPT ![e] = sent.ch]
          /\ em_log' = [em_log EXCEPT ![e] =
                            IF sent.res = "Err" THEN <<"error", "send">> ELSE << >>]
    /\ em_out' = [em_out EXCEPT ![e] = "none"]
    /\ em_pc' = [em_pc EXCEPT ![e] = "tick"]
    /\ UNCHANGED <<reconciler_vars, http_vars, main_pc, signalled, shutdown_rx,
                   em_fails>>

\* The select! completes with the branch of shutdown_rx.recv(): the task ends.
RecvShutdown(e) ==
    /\ em_pc[e] = "select"
    /\ shutdown_rx[e] = "signalled"
    /\ em_pc' = [em_pc EXCEPT ![e] = "done"]
    /\ em_out' = [em_out EXCEPT ![e] = "none"]
    /\ em_log' = [em_log EXCEPT ![e] = <<"info", "shutdown">>]
    /\ UNCHANGED <<reconciler_vars, http_vars, main_pc, signalled, shutdown_rx,
                   em_ch, em_fails>>

\* interval.tick().await completes.
IntervalTick(e) ==
    /\ em_pc[e] = "tick"
    /\ em_pc' = [em_pc EXCEPT ![e] = "fetch"]
    /\ em_log' = [em_log EXCEPT ![e] = << >>]
    /\ UNCHANGED <<reconciler_vars, http_vars, main_pc, signalled, shutdown_rx,
                   em_ch, em_out, em_fails>>

\* The receiving end of an emitter's channel takes a snapshot.
Consume(e) ==
    /\ em_ch[e] # << >>
    /\ em_ch' = [em_ch EXCEPT ![e] = Tail(@)]
    /\ UNCHANGED <<reconciler_vars, http_vars, main_pc, signalled, shutdown_rx,
                   em_pc, em_out, em_log, em_fails>>

\* The steps of the task of emitter e.
EmitterStep(e) == Fetch(e) \/ Send(e) \/ RecvShutdown(e) \/ IntervalTick(e)

\* A fourth specification: main, the shutdown signal and the emitters; the
\* reconciler has not started.
InitEmitters ==
    /\ now = 0
    /\ cg_reg = [x \in {} |-> << >>]
    /\ po_reg = [tp \in TopicPartitions |-> << >>]
    /\ lag_by_group = [g \in {} |-> << >>]
    /\ pc = "init_groups"
    /\ known_groups = {}
    /\ todo = {}
    /\ cg_reg_curr_hash = [x \in {} |-> << >>]
    /\ cg_reg_latest_hash = [x \in {} |-> << >>]
    /\ log = << >>
    /\ imported = [g \in {} |-> << >>]
    /\ unread = {}
    /\ gone = [g \in Groups |-> 0]
    /\ nInputs = 0
    /\ kod_rx = "open"
    /\ InitLock
    /\ InitHttp
    /\ InitMain

NextEmitters ==
    \/ BuildShutdownChannel
    \/ \E e \in Emitters : SpawnEmitter(e)
    \/ CtrlC
    \/ \E e \in Emitters : Fetch(e)
    \/ \E e \in Emitters : Send(e)
    \/ \E e \in Emitters : RecvShutdown(e)
    \/ \E e \in Emitters : IntervalTick(e)
    \/ \E e \in Emitters : Consume(e)

\* Every task the runtime holds is scheduled, and each of its awaits completes:
\* the fetch and the send have timeouts and the interval fires.  The select!
\* picks at random among its ready branches, so a branch that is ready again
\* and again is taken in the end.  The signal and the receiving ends are not
\* obliged to act.
FairEmitters ==
    /\ WF_vars(BuildShutdownChannel)
    /\ \A e \in Emitters :
          /\ WF_vars(SpawnEmitter(e))
          /\ WF_vars(EmitterStep(e))
          /\ SF_vars(RecvShutdown(e))

SpecEmitters == InitEmitters /\ [][NextEmitters]_vars /\ FairEmitters

\* ================================================================= claims
HasLag(reg, g, tp) ==
    g \in DOMAIN reg /\ tp \in DOMAIN reg[g] /\ reg[g][tp].lag # << >>

\* The step that runs the refresh pass, and the step that completes an import.
RefreshStep == pc = "tick_refresh" /\ pc' = "select"
ImportDone == pc \in {"init_loop", "tick_loop"} /\ pc' \notin {"init_loop", "tick_loop"}

\* A step of the select! that takes an event from kod_rx.
EventStep == pc = "select" /\ nInputs' = nInputs + 1 /\ po_reg' = po_reg /\ cg_reg' = cg_reg

\* C1: after the refresh pass of a tick, every entry that was stale at the
\* tick and whose partition has watermark data carries the tick's time as its
\* timestamp and the recomputed offset_lag and time_lag, whatever the other
\* entries of its group are.
C1_StaleEntriesRefreshed ==
    [][RefreshStep =>
        \A g \in Groups : \A tp \in TopicPartitions :
            ( /\ HasLag(lag_by_group, g, tp)
              /\ is_stale(lag_by_group[g][tp].lag[1], now)
              /\ get_latest_tracked_offset(po_reg, tp) # << >> )
            => LET old == lag_by_group[g][tp].lag[1]
                   new == lag_by_group'[g][tp].lag[1]
               IN  /\ new.timestamp = now
                   /\ new.offset_lag = Max(0, Last(po_reg[tp]).offset - old.offset)
                   /\ <<new.time_lag>> =
                         estimate_time_lag(po_reg, tp, old.offset, Last(po_reg[tp]).at)
    ]_vars

\* C2: a group that has left the ConsumerGroupsRegister is absent from the
\* LagRegister once a tick that started after it left has completed.
C2_RemovedWithinOneTick ==
    \A g \in Groups : gone[g] = 2 => g \notin DOMAIN lag_by_group

\* The assignment of group g as the completing import read it: nothing when
\* get_group returned None.
AsRead(g) == IF g \in unread \/ g \notin DOMAIN imported' THEN << >> ELSE imported'[g]

\* C3: when an import completes, every group of the LagRegister has exactly
\* the partitions the import read as assigned to the group's members, each
\* owned by a member it is assigned to.
C3_ImportKeysAreAssignments ==
    [][ImportDone =>
        \A g \in DOMAIN lag_by_group' :
            /\ DOMAIN lag_by_group'[g] = DOMAIN AsRead(g)
            /\ \A tp \in DOMAIN lag_by_group'[g] :
                  lag_by_group'[g][tp].owner \in AsRead(g)[tp]
    ]_vars

\* C4, as claimed: the keys of every group are exactly the partitions assigned
\* to its members (the assignment the register last imported for the group).
C4_KeysAreAssignedPartitions ==
    \A g \in DOMAIN lag_by_group : DOMAIN lag_by_group[g] = DOMAIN imported[g]

\* C4, amended: every key of a group is a partition that was assigned to the
\* group's members when the group was last imported, or a partition for which
\* an OffsetCommit has been processed (its entry has a lag).
C4_KeysAssignedOrCommitted ==
    \A g \in DOMAIN lag_by_group : \A tp \in DOMAIN lag_by_group[g] :
        tp \in DOMAIN imported[g] \/ lag_by_group[g][tp].lag # << >>

\* An OffsetCommit has added a key for a partition that is not assigned.
C4_Witness ==
    \E g \in DOMAIN lag_by_group : \E tp \in DOMAIN lag_by_group[g] :
        /\ tp \notin DOMAIN imported[g]
        /\ lag_by_group[g][tp].owner = NoOwner

\* C5: every stored Lag has timestamp >= offset_timestamp.
C5_TimestampNotBeforeOffsetTimestamp ==
    \A g \in Groups : \A tp \in TopicPartitions :
        HasLag(lag_by_group, g, tp) =>
            lag_by_group[g][tp].lag[1].timestamp
                >= lag_by_group[g][tp].lag[1].offset_timestamp

\* A lag written by an OffsetCommit at a time later than 0 stands beside a
\* lag that the refresh pass has moved forward.
C5_Witness ==
    \E g \in Groups : \E tp, tq \in TopicPartitions :
        /\ HasLag(lag_by_group, g, tp)
        /\ lag_by_group[g][tp].lag[1].timestamp
               > lag_by_group[g][tp].lag[1].offset_timestamp
        /\ HasLag(lag_by_group, g, tq)
        /\ lag_by_group[g][tq].lag[1].offset_timestamp > 0

\* C6: every stored Lag has offset_lag >= 0 and time_lag >= 0.
C6_LagsNotNegative ==
    \A g \in Groups : \A tp \in TopicPartitions :
        HasLag(lag_by_group, g, tp) =>
            /\ lag_by_group[g][tp].lag[1].offset_lag >= 0
            /\ lag_by_group[g][tp].lag[1].time_lag >= 0

\* The refresh pass has stored a positive time lag and offset lag.
C6_Witness ==
    \E g \in Groups : \E tp \in TopicPartitions :
        /\ HasLag(lag_by_group, g, tp)
        /\ lag_by_group[g][tp].lag[1].timestamp
               > lag_by_group[g][tp].lag[1].offset_timestamp
        /\ lag_by_group[g][tp].lag[1].time_lag > 0
        /\ lag_by_group[g][tp].lag[1].offset_lag > 0

\* C7: an OffsetCommit of a group that is not in the register leaves the
\* register as it is, and logs the warning exactly when the group is not the
\* internal consumer's own.
C7_UnknownGroupCommitDropped ==
    [][EventStep =>
        \A oc \in OffsetCommits(now) :
            (oc.group \notin DOMAIN lag_by_group /\ RecvOffsetCommit(oc)) =>
                /\ lag_by_group' = lag_by_group
                /\ log' = IF oc.group # KOMMITTED_CONSUMER_OFFSETS_CONSUMER
                          THEN <<"warn", "OffsetCommit", oc.group>> ELSE << >>
    ]_vars

\* The warning about an OffsetCommit of the unknown group g has been logged.
C7_Witness ==
    /\ log = <<"warn", "OffsetCommit", "g">>
    /\ "g" \notin DOMAIN lag_by_group

\* C8: an OffsetCommit or a GroupMetadata about the internal consumer's own
\* group never changes the register.
C8_InternalGroupEventsIgnored ==
    [][EventStep =>
        /\ \A oc \in OffsetCommits(now) :
            (oc.group = KOMMITTED_CONSUMER_OFFSETS_CONSUMER /\ RecvOffsetCommit(oc))
                => lag_by_group' = lag_by_group
        /\ \A gm \in GroupMetadatas :
            (gm.group = KOMMITTED_CONSUMER_OFFSETS_CONSUMER /\ RecvGroupMetadata(gm))
                => lag_by_group' = lag_by_group
    ]_vars

\* p is the production time of offset c interpolated along history h: the
\* earliest time when c is before the earliest sample, and otherwise the time
\* at c on the line through the two samples around c, in whole seconds.
IsInterpolated(h, c, p) ==
    IF c < h[1].offset THEN p = h[1].at
    ELSE \E i \in 1..(Len(h) - 1) :
            LET do == h[i + 1].offset - h[i].offset
                dt == h[i + 1].at - h[i].at
            IN  /\ h[i].offset <= c
                /\ c < h[i + 1].offset
                /\ (p - h[i].at) * do <= (c - h[i].offset) * dt
                /\ (c - h[i].offset) * dt < (p + 1 - h[i].at) * do

ScenarioHistory == <<ScenarioSample(100, 0), ScenarioSample(200, 10)>>

\* C9: the lag stored for a commit at offset c on a partition whose latest
\* sample has offset L has offset_lag = max(0, L - c); its time_lag is zero
\* when c >= L and otherwise the latest sample's time minus the interpolated
\* production time of c; with the history (100, 10:00:00), (200, 10:00:10),
\* c = 150 gives 50 and 5 s, and c = 250 gives 0 and 0 s.
C9_CommitLagValues ==
    \A tp \in TopicPartitions :
        (HasLag(lag_by_group, "g", tp) /\ po_reg[tp] # << >>) =>
            LET h == po_reg[tp]
                l == lag_by_group["g"][tp].lag[1]
                c == l.offset
                L == Last(h).offset
            IN  /\ l.offset_lag = IF L > c THEN L - c ELSE 0
                /\ c >= L => l.time_lag = 0
                /\ c < L => \E p \in 0..Last(h).at :
                               /\ IsInterpolated(h, c, p)
                               /\ l.time_lag = Last(h).at - p
                /\ (h = ScenarioHistory /\ c = 150) =>
                       (l.offset_lag = 50 /\ l.time_lag = 5)
                /\ (h = ScenarioHistory /\ c = 250) =>
                       (l.offset_lag = 0 /\ l.time_lag = 0)

\* Scenario S1 has been played, and S2 on the other partition.
C9_Witness ==
    /\ po_reg = [tp \in TopicPartitions |-> ScenarioHistory]
    /\ HasLag(lag_by_group, "g", <<"t", 0>>)
    /\ lag_by_group["g"][<<"t", 0>>].lag[1].offset = 150
    /\ HasLag(lag_by_group, "g", <<"t", 1>>)
    /\ lag_by_group["g"][<<"t", 1>>].lag[1].offset = 250

\* C10: an import that finds a group that is not in the register creates it
\* with one entry per assigned partition, owned by a member the partition is
\* assigned to and without a lag; and an entry without a lag gets one only
\* from an OffsetCommit of its group and partition.
C10_NewGroupHasOwnersAndNoLags ==
    [][ /\ \A name \in Groups :
            ( /\ pc \in {"init_loop", "tick_loop"}
              /\ name \in todo
              /\ todo' = todo \ {name}
              /\ name \notin DOMAIN lag_by_group
              /\ get_group(cg_reg, name) # << >> )
            => /\ name \in DOMAIN lag_by_group'
               /\ DOMAIN lag_by_group'[name] = DOMAIN assigned_to(cg_reg[name])
               /\ \A tp \in DOMAIN lag_by_group'[name] :
                     /\ lag_by_group'[name][tp].lag = << >>
                     /\ lag_by_group'[name][tp].owner \in assigned_to(cg_reg[name])[tp]
        /\ \A g \in Groups : \A tp \in TopicPartitions :
            ( /\ g \in DOMAIN lag_by_group /\ tp \in DOMAIN lag_by_group[g]
              /\ lag_by_group[g][tp].lag = << >>
              /\ HasLag(lag_by_group', g, tp) )
            => \E oc \in OffsetCommits(now) :
                  /\ oc.group = g
                  /\ <<oc.topic, oc.partition>> = tp
                  /\ RecvOffsetCommit(oc)
    ]_vars

\* The first import has created a group whose entries have an owner and no lag.
C10_Witness ==
    /\ pc = "init_hash"
    /\ \E g \in DOMAIN lag_by_group : \E tp \in DOMAIN lag_by_group[g] :
          /\ lag_by_group[g][tp].lag = << >>
          /\ lag_by_group[g][tp].owner \in Members

\* C11: the refresh pass changes no key and no owner, gives no lag to an entry
\* without one, and keeps the offset and offset_timestamp of every lag; a lag
\* it changes was stale, and gets the current time as its timestamp and the
\* offset_lag and time_lag recomputed from the PartitionOffsetsRegister.
C11_RefreshKeepsOffsetAndOwner ==
    [][RefreshStep =>
        /\ DOMAIN lag_by_group' = DOMAIN lag_by_group
        /\ \A g \in DOMAIN lag_by_group :
            /\ DOMAIN lag_by_group'[g] = DOMAIN lag_by_group[g]
            /\ \A tp \in DOMAIN lag_by_group[g] :
                LET o == lag_by_group[g][tp]
                    n == lag_by_group'[g][tp]
                IN  /\ n.owner = o.owner
                    /\ (o.lag = << >>) <=> (n.lag = << >>)
                    /\ o.lag # << >> =>
                          /\ n.lag[1].offset = o.lag[1].offset
                          /\ n.lag[1].offset_timestamp = o.lag[1].offset_timestamp
                          /\ n.lag[1] # o.lag[1] =>
                                /\ is_stale(o.lag[1], now)
                                /\ po_reg[tp] # << >>
                                /\ n.lag[1].timestamp = now
                                /\ n.lag[1].offset_lag =
                                      Max(0, Last(po_reg[tp]).offset - o.lag[1].offset)
                                /\ <<n.lag[1].time_lag>> =
                                      estimate_time_lag(po_reg, tp, o.lag[1].offset,
                                                        Last(po_reg[tp]).at)
    ]_vars

\* The refresh pass has just moved the timestamp of a stale lag to the current
\* time, and the lag has an owner.
C11_Witness ==
    /\ pc = "select"
    /\ \E g \in Groups : \E tp \in TopicPartitions :
          /\ HasLag(lag_by_group, g, tp)
          /\ lag_by_group[g][tp].owner \in Members
          /\ lag_by_group[g][tp].lag[1].timestamp = now
          /\ now - lag_by_group[g][tp].lag[1].offset_timestamp > LAG_STALE_AFTER

\* C12: is_ready() is true exactly when the register holds a group that has
\* at least one partition entry.
C12_ReadyIffSomeEntry ==
    is_ready(lag_by_group) <=>
        \E g \in DOMAIN lag_by_group : DOMAIN lag_by_group[g] # {}

\* C13: the three metric families of one /metrics body are computed from one
\* and the same state of the register, the one the request first read.
C13_MetricsFromOneSnapshot ==
    http_pc = "done" =>
        metrics_vec =
            [offset           |-> metric_family(http_snapshot, "offset"),
             lag_offset       |-> metric_family(http_snapshot, "offset_lag"),
             lag_milliseconds |-> metric_family(http_snapshot, "time_lag")]

\* C14: once the shutdown signal has reached the receiver of an emitter, the
\* emitter's task eventually terminates.
C14_SignalledEmitterTerminates ==
    \A e \in Emitters : (shutdown_rx[e] = "signalled") ~> (em_pc[e] = "done")

\* C15: when the select! of an emitter completes while its channel has a free
\* slot and its shutdown receiver holds the signal, the emitter terminates and
\* its channel is left as it was.
C15_ShutdownWinsTies ==
    [][\A e \in Emitters :
        ( /\ em_pc[e] = "select"
          /\ em_pc'[e] # "select"
          /\ shutdown_rx[e] = "signalled"
          /\ Len(em_ch[e]) < CHANNEL_SIZE )
        => (em_pc'[e] = "done" /\ em_ch'[e] = em_ch[e])
    ]_vars

\* C16: once the signal handler has broadcast the shutdown, the receiver of
\* every spawned emitter that has not terminated holds the signal.
C16_SignalReachesEveryEmitter ==
    \A e \in Emitters :
        (signalled /\ em_pc[e] \notin {"unspawned", "done"})
            => shutdown_rx[e] = "signalled"

\* C17: a channel never holds more than CHANNEL_SIZE snapshots; a send on a
\* full channel leaves the channel as it is, logs the error and goes on to the
\* interval tick; and an emitter at its select! always leaves it.
C17_SendNeverBlocks ==
    /\ [](\A e \in Emitters : Len(em_ch[e]) <= CHANNEL_SIZE)
    /\ [][\A e \in Emitters :
            ( /\ em_pc[e] = "select"
              /\ em_pc'[e] \notin {"select", "done"}
              /\ Len(em_ch[e]) = CHANNEL_SIZE )
            => /\ em_ch'[e] = em_ch[e]
               /\ em_log'[e] = <<"error", "send">>
               /\ em_pc'[e] = "tick"
       ]_vars
    /\ \A e \in Emitters : (em_pc[e] = "select") ~> (em_pc[e] # "select")
    /\ \A e \in Emitters :
          (em_log[e] = <<"error", "send">>) ~> (em_pc[e] \in {"fetch", "done"})

\* A snapshot has been dropped on a full channel, and the emitter has fetched
\* the next one.
C17_Witness ==
    \E e \in Emitters :
        /\ Len(em_ch[e]) = CHANNEL_SIZE
        /\ em_pc[e] = "select"
        /\ em_log[e] = <<"warn", "saturated">>
        /\ em_out[e] # em_ch[e][1]

\* C18: a failed fetch sends nothing and takes the emitter to its interval
\* tick, however many fetches have failed before; and the interval tick takes
\* the emitter to its next fetch.
C18_FailedFetchNotFatal ==
    [][\A e \in Emitters :
        /\ ( /\ em_pc[e] = "fetch"
              /\ em_pc'[e] # "fetch"
              /\ em_log'[e] = <<"error", "fetch">> )
           => (em_ch' = em_ch /\ em_pc'[e] = "tick")
        /\ (em_pc[e] = "tick" /\ em_pc'[e] # "tick") => em_pc'[e] = "fetch"
    ]_vars

\* After MaxFails consecutive failed fetches the emitter is at its next fetch.
C18_Witness ==
    \E e \in Emitters : em_fails[e] = MaxFails /\ em_pc[e] = "fetch"

\* C19: once the event channel is closed, the reconciler loop eventually exits.
C19_ClosedInputsExit == (kod_rx = "closed") ~> (pc = "exited")

\* C20: when the import of a tick completes, the groups it listed are those of
\* the register state whose token the tick read, and every one of them was
\* read with the members it has in that state.
C20_ImportFromOneSnapshot ==
    [][(pc = "tick_loop" /\ pc' = "tick_refresh") =>
        /\ known_groups = get_groups(cg_reg_latest_hash)
        /\ unread = {}
        /\ \A g \in known_groups :
              /\ g \in DOMAIN imported
              /\ imported[g] = assigned_to(cg_reg_latest_hash[g])
    ]_vars

\* C21: an OffsetCommit of a group of the register gives the entry of its
\* partition the new Lag, keeps the owner of an entry that exists and inserts
\* an entry without owner when none exists; every other entry of the group and
\* every other group stay as they are.
C21_CommitUpsertsOneEntry ==
    [][EventStep =>
        \A oc \in OffsetCommits(now) :
            (oc.group \in DOMAIN lag_by_group /\ RecvOffsetCommit(oc)) =>
                LET g == oc.group
                    tp == <<oc.topic, oc.partition>>
                IN  /\ DOMAIN lag_by_group' = DOMAIN lag_by_group
                    /\ \A h \in DOMAIN lag_by_group \ {g} :
                          lag_by_group'[h] = lag_by_group[h]
                    /\ DOMAIN lag_by_group'[g] = DOMAIN lag_by_group[g] \cup {tp}
                    /\ \A x \in DOMAIN lag_by_group[g] \ {tp} :
                          lag_by_group'[g][x] = lag_by_group[g][x]
                    /\ HasLag(lag_by_group', g, tp)
                    /\ lag_by_group'[g][tp].lag[1].offset = oc.offset
                    /\ lag_by_group'[g][tp].owner =
                          IF tp \in DOMAIN lag_by_group[g]
                          THEN lag_by_group[g][tp].owner ELSE NoOwner
    ]_vars

\* A commit has given a lag to an entry that has an owner, and another commit
\* has inserted an entry without owner in the same group.
C21_Witness ==
    \E g \in Groups : \E tp, tq \in TopicPartitions :
        /\ HasLag(lag_by_group, g, tp)
        /\ lag_by_group[g][tp].owner \in Members
        /\ HasLag(lag_by_group, g, tq)
        /\ lag_by_group[g][tq].owner = NoOwner

\* C22: the Lag an OffsetCommit stores has the committed offset and the commit
\* timestamp as offset_timestamp and timestamp; when the partition has no
\* samples, so that the estimators fail, it has offset_lag 0 and time_lag 0,
\* and it is stored all the same.
C22_CommitLagFields ==
    [][EventStep =>
        \A oc \in OffsetCommits(now) :
            (oc.group \in DOMAIN lag_by_group /\ RecvOffsetCommit(oc)) =>
                LET tp == <<oc.topic, oc.partition>> IN
                /\ HasLag(lag_by_group', oc.group, tp)
                /\ LET l == lag_by_group'[oc.group][tp].lag[1] IN
                      /\ l.offset = oc.offset
                      /\ l.offset_timestamp = oc.commit_timestamp
                      /\ l.timestamp = oc.commit_timestamp
                      /\ po_reg[tp] = << >> => (l.offset_lag = 0 /\ l.time_lag = 0)
    ]_vars

\* A commit made after time 0 at an offset above 0 is stored for a partition
\* that has no samples.
C22_Witness ==
    \E g \in Groups : \E tp \in TopicPartitions :
        /\ po_reg[tp] = << >>
        /\ HasLag(lag_by_group, g, tp)
        /\ lag_by_group[g][tp].lag[1].offset > 0
        /\ lag_by_group[g][tp].lag[1].offset_timestamp > 0
        /\ lag_by_group[g][tp].lag[1].timestamp
              = lag_by_group[g][tp].lag[1].offset_timestamp

\* The members of a GroupMetadata event that list a partition as assigned or
\* owned.
ListedBy(gm, tp) ==
    {gm.members[i].id : i \in {j \in DOMAIN gm.members :
        tp \in gm.members[j].assigned_topic_partitions
                 \cup gm.members[j].owned_topic_partitions}}

\* C23: a GroupMetadata with members, for a group of the register, keeps
\* exactly the entries whose partition a member lists as assigned or owned,
\* gives each the id of a member listing it as owner, keeps its lag, and adds
\* no entry.
C23_GroupMetadataRetainsListed ==
    [][EventStep =>
        \A gm \in GroupMetadatas :
            ( /\ gm.members # << >>
              /\ gm.group \in DOMAIN lag_by_group
              /\ RecvGroupMetadata(gm) ) =>
                LET old == lag_by_group[gm.group]
                    new == lag_by_group'[gm.group]
                IN  /\ DOMAIN new = {tp \in DOMAIN old : ListedBy(gm, tp) # {}}
                    /\ \A tp \in DOMAIN new :
                          /\ new[tp].owner \in ListedBy(gm, tp)
                          /\ new[tp].lag = old[tp].lag
    ]_vars

\* A GroupMetadata has made m2 the owner of the entry of t:0 in group g, a
\* partition that m2 lists as owned and that no listing assigns to it.
C23_Witness ==
    /\ "g" \in DOMAIN lag_by_group
    /\ <<"t", 0>> \in DOMAIN lag_by_group["g"]
    /\ lag_by_group["g"][<<"t", 0>>].owner = "m2"

\* C24: a GroupMetadata without members leaves the register as it is, whether
\* its group is in the register or not.
C24_EmptyGroupMetadataDropped ==
    [][EventStep =>
        \A gm \in GroupMetadatas :
            (gm.members = << >> /\ RecvGroupMetadata(gm)) =>
                lag_by_group' = lag_by_group
    ]_vars

\* A GroupMetadata without members has been dropped for group g, which has a
\* lag and an owner in the register.
C24_Witness ==
    /\ log = <<"debug", "GroupMetadata", "g">>
    /\ \E tp \in TopicPartitions :
          /\ HasLag(lag_by_group, "g", tp)
          /\ lag_by_group["g"][tp].owner \in Members

\* C25: an import that reads a group that is in the register leaves it with
\* one entry per assigned partition, owned by a member the partition is
\* assigned to; the entry keeps the lag it had, or has none when the partition
\* had no entry.
C25_ImportUpdateKeepsLags ==
    [][\A name \in Groups :
        ( /\ pc \in {"init_loop", "tick_loop"}
          /\ name \in todo
          /\ todo' = todo \ {name}
          /\ name \in DOMAIN lag_by_group
          /\ get_group(cg_reg, name) # << >> )
        => LET old == lag_by_group[name]
               new == lag_by_group'[name]
               assigned == assigned_to(cg_reg[name])
           IN  /\ DOMAIN new = DOMAIN assigned
               /\ \A tp \in DOMAIN new :
                     /\ new[tp].owner \in assigned[tp]
                     /\ new[tp].lag = IF tp \in DOMAIN old THEN old[tp].lag ELSE << >>
    ]_vars

\* The import of a tick has read group g again: its entry of t:1 has the lag
\* it had and an owner, and its entry of t:0, a partition of the listing whose
\* token the reconciler recorded, is gone.
C25_Witness ==
    /\ pc = "tick_loop"
    /\ "g" \in known_groups \ (todo \cup unread)
    /\ "g" \in DOMAIN cg_reg_curr_hash
    /\ <<"t", 0>> \in DOMAIN assigned_to(cg_reg_curr_hash["g"])
    /\ HasLag(lag_by_group, "g", <<"t", 1>>)
    /\ lag_by_group["g"][<<"t", 1>>].owner \in Members
    /\ <<"t", 0>> \notin DOMAIN lag_by_group["g"]

\* C26: the refresh pass leaves as it is, in all its fields, every entry whose
\* lag is not stale (now - offset_timestamp <= LAG_STALE_AFTER) and every
\* entry whose partition has no watermark sample.
C26_RefreshSkipsFreshAndNoData ==
    [][RefreshStep =>
        \A g \in Groups : \A tp \in TopicPartitions :
            ( /\ HasLag(lag_by_group, g, tp)
              /\ \/ now - lag_by_group[g][tp].lag[1].offset_timestamp <= LAG_STALE_AFTER
                 \/ po_reg[tp] = << >> )
            => /\ g \in DOMAIN lag_by_group'
               /\ tp \in DOMAIN lag_by_group'[g]
               /\ lag_by_group'[g][tp] = lag_by_group[g][tp]
    ]_vars

\* The refresh pass has just met a stale lag whose partition has no sample,
\* and has left it with the timestamp of its commit.
C26_Witness ==
    /\ pc = "select"
    /\ log = <<"error", "update_stale_lags">>
    /\ \E g \in Groups : \E tp \in TopicPartitions :
          /\ HasLag(lag_by_group, g, tp)
          /\ po_reg[tp] = << >>
          /\ now - lag_by_group[g][tp].lag[1].offset_timestamp > LAG_STALE_AFTER
          /\ lag_by_group[g][tp].lag[1].timestamp
                = lag_by_group[g][tp].lag[1].offset_timestamp

\* C27: whenever the reconciler is at its select! and the token it recorded
\* is the current token of the ConsumerGroupsRegister, the groups of the
\* LagRegister are the groups of the ConsumerGroupsRegister.
C27_EqualTokensEqualGroups ==
    (pc = "select" /\ cg_reg_curr_hash = get_hash(cg_reg))
        => DOMAIN lag_by_group = get_groups(cg_reg)

\* C29: every entry has a lag or an owner; and an entry that a step keeps
\* keeps having a lag if it had one, and an owner if it had one.
C29_LagOrOwnerAndNeverReset ==
    /\ [](\A g \in DOMAIN lag_by_group : \A tp \in DOMAIN lag_by_group[g] :
            lag_by_group[g][tp].lag # << >> \/ lag_by_group[g][tp].owner # NoOwner)
    /\ [][\A g \in DOMAIN lag_by_group \cap DOMAIN lag_by_group' :
            \A tp \in DOMAIN lag_by_group[g] \cap DOMAIN lag_by_group'[g] :
                /\ lag_by_group[g][tp].lag # << >>
                      => lag_by_group'[g][tp].lag # << >>
                /\ lag_by_group[g][tp].owner # NoOwner
                      => lag_by_group'[g][tp].owner # NoOwner
       ]_vars

\* One group holds an entry with an owner and no lag, an entry with a lag and
\* no owner, and after a refresh.
C29_Witness ==
    \E g \in Groups : \E tp, tq \in TopicPartitions :
        /\ g \in DOMAIN lag_by_group
        /\ tp \in DOMAIN lag_by_group[g]
        /\ lag_by_group[g][tp].lag = << >>
        /\ lag_by_group[g][tp].owner \in Members
        /\ HasLag(lag_by_group, g, tq)
        /\ lag_by_group[g][tq].owner = NoOwner
        /\ lag_by_group[g][tq].lag[1].timestamp
              > lag_by_group[g][tq].lag[1].offset_timestamp

\* C30: an OffsetCommit, a GroupMetadata and the refresh pass leave the set of
\* groups of the register as it is, and the refresh pass also leaves the keys
\* of every group and the owner of every entry as they are.
C30_OnlyImportChangesGroups ==
    [][ /\ (EventStep \/ RefreshStep) => DOMAIN lag_by_group' = DOMAIN lag_by_group
        /\ RefreshStep =>
              \A g \in DOMAIN lag_by_group :
                  /\ DOMAIN lag_by_group'[g] = DOMAIN lag_by_group[g]
                  /\ \A tp \in DOMAIN lag_by_group[g] :
                        lag_by_group'[g][tp].owner = lag_by_group[g][tp].owner
    ]_vars

\* The reconciler has just handled a GroupMetadata with members of group g,
\* which the ConsumerGroupsRegister lists and the LagRegister lacks: the
\* LagRegister still lacks it.
C30_Witness ==
    /\ pc = "select"
    /\ log = <<"warn", "GroupMetadata", "g">>
    /\ "g" \in get_groups(cg_reg)
    /\ "g" \notin DOMAIN lag_by_group


\* C28: a reader never observes a group in the middle of an update.  Every read
\* of lag_by_group by the /metrics handler happens while no writer is between
\* the first and the last write of its critical section: not after the retain
\* of an import and before its owners are set, and not after offset_lag of a
\* refreshed Lag is written and before its time_lag and timestamp are.
C28_ReaderNeverSeesMidUpdate ==
    [][http_pc' # http_pc \/ metrics_vec' # metrics_vec
          \/ http_snapshot' # http_snapshot => w_at = << >>]_vars

\* A request has read the register, and the import is now after its retain
\* and before its owners: the register differs from what the import leaves
\* and from what the request read.
C28_Witness ==
    /\ http_pc = "lag_offset"
    /\ w_at = <<"import", "g">>
    /\ lag_by_group # w_pending
    /\ http_snapshot # lag_by_group
    /\ "g" \in DOMAIN http_snapshot

====
